---- MODULE Spec2Model ----
(***************************************************************************)
(* SlyCat (slycat.py): bundling a directory tree into one Markdown file    *)
(* (concatenate_files_and_folders) and slicing such a bundle back into     *)
(* files (slice_files).                                                    *)
(*                                                                         *)
(* Text representation.  A Python str / bytes value is a sequence of       *)
(* tokens.  A token is an indivisible chunk of characters; the characters  *)
(* the program looks at are always tokens of their own:                    *)
(*   "\n" "\r" " "   whitespace                                            *)
(*   "/"             the path separator (os.sep, POSIX)                    *)
(*   "BT" "FENCE"    one backtick, a run of three backticks                *)
(*   "###" "**" ">"  the header marks and the block-quote mark             *)
(*   "*"             only in patterns: the glob wildcard                   *)
(*   "NUL" "CTL"     a null byte, another control byte (in file bytes)     *)
(*   "BSLASH"        a backslash                                           *)
(*   ".py" ".txt" .. a file name extension (dot included)                  *)
(* and every other token ("proj", "a", "x", "python", ..) is a run of word *)
(* characters.  "." and ".." are the dot path segments.                    *)
(***************************************************************************)
EXTENDS Integers, Sequences, FiniteSets, TLC

(***************************************************************************)
(* Bounds of the model                                                     *)
(***************************************************************************)
\* the longest list of input paths of an encode run
MaxPaths == 2
\* the number of rotations of the exclusion list considered as orders
MaxRot == 2

\* f.read(4096) in is_text_file
ChunkSize == 4096

(***************************************************************************)
(* str helpers                                                             *)
(***************************************************************************)
Min(a, b) == IF a < b THEN a ELSE b

Range(s) == {s[i] : i \in DOMAIN s}

\* s[i:] and s[:i] with 1-based i
Drop(s, n) == SubSeq(s, n + 1, Len(s))
Take(s, n) == SubSeq(s, 1, Min(n, Len(s)))

startswith(s, p) == Len(p) <= Len(s) /\ SubSeq(s, 1, Len(p)) = p

\* s.find(sub, from): the least 1-based index >= from where sub occurs, 0 if none
find(s, sub, from) ==
    LET hits == {i \in from..(Len(s) - Len(sub) + 1) : SubSeq(s, i, i + Len(sub) - 1) = sub}
    IN IF hits = {} THEN 0 ELSE CHOOSE i \in hits : \A j \in hits : i <= j

IsSpace(t) == t \in {" ", "\n", "\r", "\t"}

RECURSIVE lstrip(_)
lstrip(s) == IF s # <<>> /\ IsSpace(s[1]) THEN lstrip(Tail(s)) ELSE s

RECURSIVE rstrip(_)
rstrip(s) == IF s # <<>> /\ IsSpace(s[Len(s)]) THEN rstrip(SubSeq(s, 1, Len(s) - 1)) ELSE s

strip(s) == rstrip(lstrip(s))

\* s.split(sep) for a one-token separator: the pieces between the separators
RECURSIVE split(_, _)
split(s, sep) ==
    LET i == find(s, <<sep>>, 1)
    IN IF i = 0 THEN <<s>> ELSE <<SubSeq(s, 1, i - 1)>> \o split(Drop(s, i), sep)

\* sep.join(parts)
RECURSIVE joinstr(_, _)
joinstr(parts, sep) ==
    IF parts = <<>> THEN <<>>
    ELSE IF Len(parts) = 1 THEN parts[1]
    ELSE parts[1] \o <<sep>> \o joinstr(Tail(parts), sep)

(***************************************************************************)
(* os.path (posixpath)                                                     *)
(***************************************************************************)
isabs(p) == startswith(p, <<"/">>)

\* os.path.join(a, b)
path_join(a, b) ==
    IF isabs(b) THEN b
    ELSE IF a = <<>> \/ a[Len(a)] = "/" THEN a \o b
    ELSE a \o <<"/">> \o b

\* the component loop of posixpath.normpath
RECURSIVE NormComps(_, _, _)
NormComps(comps, new_comps, initial_slashes) ==
    IF comps = <<>> THEN new_comps
    ELSE LET comp == comps[1]
             n == Len(new_comps)
         IN IF comp = <<>> \/ comp = <<".">>
               THEN NormComps(Tail(comps), new_comps, initial_slashes)
            ELSE IF comp # <<"..">>
                    \/ (initial_slashes = 0 /\ n = 0)
                    \/ (n > 0 /\ new_comps[n] = <<"..">>)
               THEN NormComps(Tail(comps), Append(new_comps, comp), initial_slashes)
            ELSE IF n > 0
               THEN NormComps(Tail(comps), SubSeq(new_comps, 1, n - 1), initial_slashes)
            ELSE NormComps(Tail(comps), new_comps, initial_slashes)

normpath(path) ==
    LET Result(res) == IF res = <<>> THEN <<".">> ELSE res
        Build(initial_slashes) ==
            Result([i \in 1..initial_slashes |-> "/"]
                   \o joinstr(NormComps(split(path, "/"), <<>>, initial_slashes), "/"))
    IN IF path = <<>> THEN <<".">>
       ELSE Build(IF ~startswith(path, <<"/">>) THEN 0
                  ELSE IF startswith(path, <<"/", "/">>) /\ ~startswith(path, <<"/", "/", "/">>)
                          THEN 2
                  ELSE 1)

\* the index of the last "/" of p, 0 if none
rfind_sep(p) ==
    LET hits == {i \in DOMAIN p : p[i] = "/"}
    IN IF hits = {} THEN 0 ELSE CHOOSE i \in hits : \A j \in hits : j <= i

basename(p) == Drop(p, rfind_sep(p))

RECURSIVE rstrip_sep(_)
rstrip_sep(s) == IF s # <<>> /\ s[Len(s)] = "/" THEN rstrip_sep(SubSeq(s, 1, Len(s) - 1)) ELSE s

dirname(p) ==
    LET head == SubSeq(p, 1, rfind_sep(p))
    IN IF head # <<>> /\ \E i \in DOMAIN head : head[i] # "/" THEN rstrip_sep(head) ELSE head

\* the tokens that are file name extensions
ExtTokens ==
    {".py", ".js", ".html", ".css", ".sh", ".java", ".cpp", ".c", ".json", ".yml",
     ".yaml", ".xml", ".rb", ".rs", ".go", ".md", ".txt", ".ini", ".cfg",
     ".pyc", ".png", ".log", ".dat"}

\* the extension of os.path.splitext(p): the last extension token of the base
\* name, unless the base name is that token alone (a leading dot is no extension)
splitext_ext(p) ==
    LET b == basename(p)
    IN IF Len(b) >= 2 /\ b[Len(b)] \in ExtTokens THEN <<b[Len(b)]>> ELSE <<>>

\* the current directory of the process
cwd == <<"/", "w">>

abspath(p) == normpath(path_join(cwd, p))

\* the length of the common prefix of two component lists
RECURSIVE CommonLen(_, _)
CommonLen(a, b) ==
    IF a # <<>> /\ b # <<>> /\ a[1] = b[1] THEN 1 + CommonLen(Tail(a), Tail(b)) ELSE 0

PathComps(p) == SelectSeq(split(p, "/"), LAMBDA x : x # <<>>)

\* os.path.relpath(path, start)
relpath(path, start) ==
    LET Result(rel_list) == IF rel_list = <<>> THEN <<".">> ELSE joinstr(rel_list, "/")
        Rel(start_list, path_list, i) ==
            Result([k \in 1..(Len(start_list) - i) |-> <<"..">>] \o Drop(path_list, i))
        Lists(start_list, path_list) ==
            Rel(start_list, path_list, CommonLen(start_list, path_list))
    IN Lists(PathComps(abspath(start)), PathComps(abspath(path)))

(***************************************************************************)
(* fnmatch.fnmatch(name, pat): "*" matches any run of tokens, every other  *)
(* pattern token matches itself                                            *)
(***************************************************************************)
RECURSIVE fnmatch(_, _)
fnmatch(name, pat) ==
    IF pat = <<>> THEN name = <<>>
    ELSE IF pat[1] = "*"
       THEN fnmatch(name, Tail(pat)) \/ (name # <<>> /\ fnmatch(Tail(name), pat))
    ELSE name # <<>> /\ name[1] = pat[1] /\ fnmatch(Tail(name), Tail(pat))

(***************************************************************************)
(* sorted(): Python orders str by code point.  TokenOrder lists the tokens *)
(* that occur in file names in that order; names compare token by token.  *)
(***************************************************************************)
TokenOrder == <<".git", ".md", ".py", ".txt", "a", "b", "config", "nope", "out", "proj", "sub">>

TokenRank(t) ==
    IF \E i \in DOMAIN TokenOrder : TokenOrder[i] = t
       THEN CHOOSE i \in DOMAIN TokenOrder : TokenOrder[i] = t
       ELSE 0

RECURSIVE StrLess(_, _)
StrLess(a, b) ==
    IF a = <<>> THEN b # <<>>
    ELSE IF b = <<>> THEN FALSE
    ELSE IF a[1] = b[1] THEN StrLess(Tail(a), Tail(b))
    ELSE TokenRank(a[1]) < TokenRank(b[1])

RECURSIVE sorted(_)
sorted(S) ==
    IF S = {} THEN <<>>
    ELSE LET m == CHOOSE x \in S : \A y \in S \ {x} : StrLess(x, y)
         IN <<m>> \o sorted(S \ {m})

(***************************************************************************)
(* The file system: a function from absolute normalized paths to nodes.    *)
(*   type  "dir" | "file"                                                  *)
(*   bytes the content of a file                                           *)
(*   perm  "ok"; "unreadable": open() and os.listdir() raise OSError;      *)
(*         "lost": the file can be opened once (by the classifier) and     *)
(*         every later open() raises OSError                               *)
(***************************************************************************)
Dir(perm) == [type |-> "dir", bytes |-> <<>>, perm |-> perm]
File(bytes, perm) == [type |-> "file", bytes |-> bytes, perm |-> perm]

exists(fs, p) == abspath(p) \in DOMAIN fs
isdir(fs, p) == exists(fs, p) /\ fs[abspath(p)].type = "dir"
isfile(fs, p) == exists(fs, p) /\ fs[abspath(p)].type = "file"

\* os.listdir(p) of a directory that can be listed: the names in it
listdir(fs, p) ==
    {basename(k) : k \in {k \in DOMAIN fs : k # abspath(p) /\ dirname(k) = abspath(p)}}

listdir_raises(fs, p) == ~isdir(fs, p) \/ fs[abspath(p)].perm # "ok"

(***************************************************************************)
(* AI_INSTRUCTION_PROMPT: a leading newline, the block-quoted lines (each  *)
(* starts with ">"; the first holds the marker, two hold the example       *)
(* header and the fence marks), then the blank lines that follow them      *)
(***************************************************************************)
prompt_marker == <<">", " ", "**", "AI Instruction:", "**">>

AI_INSTRUCTION_PROMPT ==
    <<"\n">> \o prompt_marker \o <<"\n">>
    \o <<">", " ", "The following code", "\n">>
    \o <<">", "\n">>
    \o <<">", " ", "Please adhere", "\n">>
    \o <<">", " ", "Use a header line", " ", "BT", "###", " ", "**", "BSLASH", "BT",
         "path", "/", "to", "/", "file", ".ext", "BSLASH", "BT", "**", "BT", " ", "before", "\n">>
    \o <<">", " ", "Enclose", " ", "(", "FENCE", ")", " ", "FENCE", "python", ",", " ",
         "FENCE", "text", ".", "\n">>
    \o <<">", "\n">>
    \o <<">", " ", "Maintaining", " ", "Thank you!", "\n">>
    \o <<"\n">>
    \o <<"\n", "\n">>

CODE_FENCE_LOOKUP(ext) ==
    CASE ext = <<".py">> -> <<"python">>
      [] ext = <<".js">> -> <<"javascript">>
      [] ext = <<".html">> -> <<"html">>
      [] ext = <<".css">> -> <<"css">>
      [] ext = <<".sh">> -> <<"bash">>
      [] ext = <<".java">> -> <<"java">>
      [] ext = <<".cpp">> -> <<"c++">>
      [] ext = <<".c">> -> <<"c">>
      [] ext = <<".json">> -> <<"json">>
      [] ext \in {<<".yml">>, <<".yaml">>} -> <<"yaml">>
      [] ext = <<".xml">> -> <<"xml">>
      [] ext = <<".rb">> -> <<"ruby">>
      [] ext = <<".rs">> -> <<"rust">>
      [] ext = <<".go">> -> <<"go">>
      [] ext = <<".md">> -> <<"markdown">>
      [] ext = <<".txt">> -> <<"text">>
      [] ext \in {<<".ini">>, <<".cfg">>} -> <<"ini">>
      [] OTHER -> <<"text">>

binary_extensions ==
    {".jpg", ".jpeg", ".png", ".gif", ".bmp", ".tiff", ".ico",
     ".mp3", ".wav", ".ogg", ".flac", ".aac",
     ".mp4", ".avi", ".mov", ".mkv", ".webm",
     ".zip", ".rar", ".7z", ".tar", ".gz", ".bz2", ".xz",
     ".exe", ".dll", ".so", ".o", ".pyc", ".pyd",
     ".class", ".jar", ".war",
     ".pdf", ".doc", ".docx", ".xls", ".xlsx", ".ppt", ".pptx",
     ".db", ".sqlite", ".sqlite3",
     ".woff", ".woff2", ".ttf", ".otf", ".eot"}

\* the number of bytes of a token
ByteLen(t) == IF t \in {"FENCE", "###"} THEN 3 ELSE IF t = "**" THEN 2 ELSE 1

RECURSIVE SumBytes(_)
SumBytes(s) == IF s = <<>> THEN 0 ELSE ByteLen(s[1]) + SumBytes(Tail(s))

is_text_file(fs, file_path) ==
    LET Control(chunk) == Cardinality({i \in DOMAIN chunk : chunk[i] \in {"NUL", "CTL"}})
        Check(chunk) ==
            IF chunk = <<>> THEN TRUE
            ELSE IF \E i \in DOMAIN chunk : chunk[i] = "NUL" THEN FALSE
            ELSE IF Control(chunk) * 10 > SumBytes(chunk) THEN FALSE
            ELSE TRUE
        Read(node) ==
            IF node.perm = "unreadable" THEN FALSE ELSE Check(Take(node.bytes, ChunkSize))
        Ext(ext) ==
            IF ext # <<>> /\ ext[1] \in binary_extensions THEN FALSE
            ELSE Read(fs[abspath(file_path)])
    IN Ext(splitext_ext(file_path))

(***************************************************************************)
(* write_file_to_output                                                    *)
(***************************************************************************)
os_sep == "/"

\* s.replace(old, new) for one-token old and new
replace(s, old, new) == [i \in DOMAIN s |-> IF s[i] = old THEN new ELSE s[i]]

\* lines 123-133: the path of the header
HeaderPath(file_path, base_folder) ==
    LET Named(rel_path, base_folder_name) ==
            IF base_folder_name # <<>> /\ base_folder_name # <<".">>
               THEN path_join(base_folder_name, rel_path)
               ELSE normpath(rel_path)
    IN replace(Named(relpath(file_path, base_folder), basename(normpath(base_folder))),
               os_sep, "/")

\* f.read() of a file opened in text mode: universal newlines turn "\r\n"
\* and a lone "\r" into "\n"
ReadText(bytes) ==
    LET Keep(t) == t # "DROPPED"
    IN SelectSeq([i \in DOMAIN bytes |->
                    IF bytes[i] = "\n" /\ i > 1 /\ bytes[i - 1] = "\r" THEN "DROPPED"
                    ELSE IF bytes[i] = "\r" THEN "\n"
                    ELSE bytes[i]],
                 Keep)

\* line 159: the header and the fenced block of one file
FormatEntry(rel_path, language, content) ==
    <<"###", " ", "**", "BT">> \o rel_path \o <<"BT", "**", "\n", "\n">>
    \o <<"FENCE">> \o language \o <<"\n">> \o content \o <<"\n", "FENCE", "\n", "\n">>

\* what write_file_to_output appends to the output file: ok is FALSE when no
\* encoding could read the file (content is None) and nothing is written
write_file_to_output(fs, file_path, base_folder) ==
    LET Write(rel_path, node) ==
            IF node.perm # "ok"
               THEN [ok |-> FALSE, text |-> <<>>, rel_path |-> rel_path]
               ELSE [ok |-> TRUE,
                     text |-> FormatEntry(rel_path, CODE_FENCE_LOOKUP(splitext_ext(file_path)),
                                          ReadText(node.bytes)),
                     rel_path |-> rel_path]
    IN Write(HeaderPath(file_path, base_folder), fs[abspath(file_path)])

(***************************************************************************)
(* should_include, should_exclude                                          *)
(***************************************************************************)
RECURSIVE should_include_loop(_, _)
should_include_loop(item_path, includes) ==
    IF includes = <<>> THEN FALSE
    ELSE IF fnmatch(item_path, includes[1]) \/ fnmatch(basename(item_path), includes[1])
       THEN TRUE
    ELSE should_include_loop(item_path, Tail(includes))

should_include(item_path, includes, is_dir) ==
    IF includes = <<>> THEN TRUE ELSE should_include_loop(item_path, includes)

\* a plausible slip: the loop returns after its first pattern
should_exclude_first(item_path, exclusions, is_dir) ==
    exclusions # <<>>
    /\ (\/ fnmatch(item_path, exclusions[1])
        \/ fnmatch(basename(item_path), exclusions[1]))

RECURSIVE should_exclude(_, _, _)
should_exclude(item_path, exclusions, is_dir) ==
    IF exclusions = <<>> THEN FALSE
    ELSE LET pattern == exclusions[1]
         IN IF fnmatch(item_path, pattern) THEN TRUE
            ELSE IF fnmatch(basename(item_path), pattern) THEN TRUE
            ELSE IF /\ is_dir
                    /\ pattern # <<>> /\ pattern[Len(pattern)] \in {"/", os_sep}
                    /\ fnmatch(item_path \o <<os_sep>>, pattern)
               THEN TRUE
            ELSE should_exclude(item_path, Tail(exclusions), is_dir)

(***************************************************************************)
(* traverse_and_concatenate.  ctx is what a run never changes while it     *)
(* walks: [fs, exclusions, includes].  acc is what the walk changes: the   *)
(* text written to output_file, the three sets, and (for the properties)   *)
(* entries: the files written, in order; listed: the directories whose     *)
(* os.listdir succeeded; failures: the paths whose failure was recovered;  *)
(* visited: the paths traverse_and_concatenate was called with.            *)
(***************************************************************************)
\* lines 227-235 with the inclusion test first
NodeDecision_include_first(current_path, is_dir, exclusions, includes) ==
    IF includes # <<>> /\ should_include(current_path, includes, is_dir) THEN "process"
    ELSE IF should_exclude(current_path, exclusions, is_dir) THEN "excluded"
    ELSE IF includes # <<>> THEN "not_included"
    ELSE "process"

\* lines 227-235: what the two tests decide for a path
NodeDecision(current_path, is_dir, exclusions, includes) ==
    IF should_exclude(current_path, exclusions, is_dir) THEN "excluded"
    ELSE IF includes # <<>> /\ ~should_include(current_path, includes, is_dir) THEN "not_included"
    ELSE "process"

\* lines 272-274: the file is counted, then written unless no encoding reads it
AddFile(current_path, w, acc) ==
    [acc EXCEPT !.processed_files = @ \cup {current_path},
                !.out = IF w.ok THEN @ \o w.text ELSE @,
                !.entries = IF w.ok
                               THEN Append(@, [file |-> current_path, rel_path |-> w.rel_path])
                               ELSE @,
                !.failures = IF w.ok THEN @ ELSE @ \cup {current_path}]

\* lines 267-279 with the classifier's verdict ignored
ProcessFile_unclassified(current_path, base_folder, ctx, acc) ==
    AddFile(current_path, write_file_to_output(ctx.fs, current_path, base_folder), acc)

\* lines 267-279: a file that passed the filters
ProcessFile(current_path, base_folder, ctx, acc) ==
    IF is_text_file(ctx.fs, current_path)
       THEN AddFile(current_path, write_file_to_output(ctx.fs, current_path, base_folder), acc)
       ELSE [acc EXCEPT !.skipped_files = @ \cup {current_path},
                        !.failures = IF ctx.fs[abspath(current_path)].perm = "unreadable"
                                        THEN @ \cup {current_path} ELSE @]

RECURSIVE traverse_and_concatenate(_, _, _, _)
RECURSIVE traverse_items(_, _, _, _, _)

\* lines 242-244 and 260-263: the loop over the sorted listing
traverse_items(items, current_path, base_folder, ctx, acc) ==
    IF items = <<>> THEN acc
    ELSE traverse_items(Tail(items), current_path, base_folder, ctx,
             traverse_and_concatenate(path_join(current_path, items[1]), base_folder, ctx, acc))

\* lines 239-246 and 257-265: list a directory and walk its items; an OSError
\* of os.listdir is caught and the directory is left out
Descend(current_path, base_folder, ctx, acc) ==
    IF listdir_raises(ctx.fs, current_path)
       THEN [acc EXCEPT !.failures = @ \cup {current_path}]
       ELSE traverse_items(sorted(listdir(ctx.fs, current_path)), current_path, base_folder, ctx,
                           [acc EXCEPT !.listed = @ \cup {current_path}])

\* lines 227-279 with a directory that matches no include pattern left out
\* like a file that matches none
traverse_and_concatenate_pruning(current_path, base_folder, ctx, acc) ==
    LET Act(is_dir, decision) ==
            IF decision = "excluded"
               THEN [acc EXCEPT !.excluded_items = @ \cup {current_path},
                                !.visited = @ \cup {current_path}]
            ELSE IF decision = "not_included"
               THEN [acc EXCEPT !.visited = @ \cup {current_path}]
            ELSE IF is_dir
               THEN Descend(current_path, base_folder, ctx,
                            [acc EXCEPT !.visited = @ \cup {current_path}])
            ELSE IF isfile(ctx.fs, current_path)
               THEN ProcessFile(current_path, base_folder, ctx,
                                [acc EXCEPT !.visited = @ \cup {current_path}])
            ELSE [acc EXCEPT !.visited = @ \cup {current_path}]
        Node(is_dir) ==
            Act(is_dir, NodeDecision(current_path, is_dir, ctx.exclusions, ctx.includes))
    IN Node(isdir(ctx.fs, current_path))

\* Lines 227-279.  A directory that is not excluded is listed and walked
\* whether or not it matches an include pattern (lines 238-246 and 255-265
\* differ only in what they print).
traverse_and_concatenate(current_path, base_folder, ctx, acc) ==
    LET Act(is_dir, decision) ==
            IF decision = "excluded"
               THEN [acc EXCEPT !.excluded_items = @ \cup {current_path},
                                !.visited = @ \cup {current_path}]
            ELSE IF is_dir
               THEN Descend(current_path, base_folder, ctx,
                            [acc EXCEPT !.visited = @ \cup {current_path}])
            ELSE IF decision = "not_included"
               THEN [acc EXCEPT !.visited = @ \cup {current_path}]
            ELSE IF isfile(ctx.fs, current_path)
               THEN ProcessFile(current_path, base_folder, ctx,
                                [acc EXCEPT !.visited = @ \cup {current_path}])
            ELSE [acc EXCEPT !.visited = @ \cup {current_path}]
        Node(is_dir) ==
            Act(is_dir, NodeDecision(current_path, is_dir, ctx.exclusions, ctx.includes))
    IN Node(isdir(ctx.fs, current_path))

(***************************************************************************)
(* concatenate_files_and_folders                                           *)
(***************************************************************************)
default_venv_patterns ==
    {<<"venv">>, <<".venv">>, <<"*", "*", "/", "site-packages">>, <<"__pycache__">>,
     <<"*", ".pyc">>, <<".git">>, <<".hg">>, <<".svn">>, <<"node_modules">>, <<".DS_Store">>}

\* lines 311-313 with the defaults dropped once the user gives patterns
effective_exclusions_overridden(exclusions) ==
    IF exclusions = <<>> THEN default_venv_patterns ELSE Range(exclusions)

\* lines 311-313
effective_exclusions(exclusions) == Range(exclusions) \cup default_venv_patterns

\* One listing of every pattern the model uses.  list(set) may yield any
\* order; SetOrder(S, k) is the listing of S rotated by k.
PatternListing ==
    <<<<"sub">>, <<"*", ".py">>, <<".git">>, <<"venv">>, <<".venv">>,
      <<"*", "*", "/", "site-packages">>, <<"__pycache__">>, <<"*", ".pyc">>,
      <<".hg">>, <<".svn">>, <<"node_modules">>, <<".DS_Store">>>>

SetOrder(S, k) ==
    LET Rot(l, r) == Drop(l, r) \o Take(l, r)
        Listed(l) == Rot(l, IF l = <<>> THEN 0 ELSE k % Len(l))
    IN Listed(SelectSeq(PatternListing, LAMBDA x : x \in S))

Orders(S) == {SetOrder(S, k) : k \in 0..MaxRot}

\* lines 337-343
base_folder_for(fs, path_arg) ==
    IF isfile(fs, path_arg)
       THEN IF dirname(path_arg) = <<>> THEN <<".">> ELSE dirname(path_arg)
       ELSE path_arg

EmptyAcc ==
    [out |-> <<>>, processed_files |-> {}, skipped_files |-> {}, excluded_items |-> {},
     not_found_paths |-> <<>>, entries |-> <<>>, listed |-> {}, failures |-> {},
     visited |-> {}]

\* lines 326-346: one turn of the loop over paths
ProcessPathArg(path_arg, ctx, acc) ==
    LET Walk(np) == traverse_and_concatenate(np, base_folder_for(ctx.fs, np), ctx, acc)
    IN IF ~exists(ctx.fs, path_arg)
          THEN [acc EXCEPT !.not_found_paths = Append(@, path_arg)]
          ELSE Walk(normpath(path_arg))

RECURSIVE ProcessPaths(_, _, _)
ProcessPaths(paths, ctx, acc) ==
    IF paths = <<>> THEN acc
    ELSE ProcessPaths(Tail(paths), ctx, ProcessPathArg(paths[1], ctx, acc))

\* lines 294-299 with the error kept for an output that is an input path
PreflightFails_input_only(fs, a) ==
    /\ exists(fs, normpath(a.output_name)) /\ ~a.force
    /\ normpath(a.output_name) \in {normpath(q) : q \in Range(a.paths)}

\* lines 294-299: the pre-flight check fails
PreflightFails(fs, a) == exists(fs, normpath(a.output_name)) /\ ~a.force

\* line 318: open(output_name, 'w') creates the file or truncates it
OpenForWrite(fs, name) ==
    [p \in DOMAIN fs \cup {abspath(name)} |->
        IF p = abspath(name) THEN File(<<>>, "ok") ELSE fs[p]]

\* the text written before the loop (lines 320-323)
PromptText(a) == IF a.add_prompt THEN AI_INSTRUCTION_PROMPT ELSE <<>>

\* lines 354-362: the counts of the summary
SummaryOf(acc, fs, excl_list) ==
    [added |-> Cardinality(acc.processed_files),
     skipped |-> Cardinality(acc.skipped_files),
     excluded |-> Cardinality({item \in acc.excluded_items :
                                  should_exclude(item, excl_list, isdir(fs, item))})]

\* A whole run that passes the pre-flight check, from the file system fs with
\* the arguments a and the exclusion list in the order excl_list
EncodeRun(fs, a, excl_list) ==
    LET ctx == [fs |-> OpenForWrite(fs, normpath(a.output_name)),
                exclusions |-> excl_list, includes |-> a.includes]
    IN ProcessPaths(a.paths, ctx, [EmptyAcc EXCEPT !.out = PromptText(a)])

(***************************************************************************)
(* slice_files                                                             *)
(***************************************************************************)
\* the absolute path ap and the directories above it, the root directory
\* (which always exists) left out
Prefixes(ap) ==
    LET Pre(cs) == {<<"/">> \o joinstr(SubSeq(cs, 1, k), "/") : k \in 1..Len(cs)}
    IN Pre(PathComps(ap))

\* os.makedirs(p, exist_ok): ok is FALSE when it raises OSError (p is empty,
\* a path above p is a file, or p exists and is a file or exist_ok is
\* false); made are the directories it creates
makedirs(fs, p, exist_ok) ==
    LET Fail == [ok |-> FALSE, fs |-> fs, made |-> {}]
        Make(new) ==
            [ok |-> TRUE,
             fs |-> [q \in DOMAIN fs \cup new |-> IF q \in new THEN Dir("ok") ELSE fs[q]],
             made |-> new]
        Place(ap) ==
            IF \E q \in Prefixes(ap) \ {ap} : q \in DOMAIN fs /\ fs[q].type = "file"
               THEN Fail
            ELSE IF ap \in DOMAIN fs
               THEN IF fs[ap].type = "dir" /\ exist_ok THEN Make({}) ELSE Fail
            ELSE Make(Prefixes(ap) \ DOMAIN fs)
    IN IF p = <<>> THEN Fail
       ELSE IF abspath(p) = <<"/">> THEN Make({})
       ELSE Place(abspath(p))

\* line 386: the tokens [^`] excludes
HasBacktick(t) == t \in {"BT", "FENCE"}

\* the index of the first token at or after i that is not white space
\* (Len(text) + 1 if there is none)
RECURSIVE SkipSpace(_, _)
SkipSpace(text, i) ==
    IF i <= Len(text) /\ IsSpace(text[i]) THEN SkipSpace(text, i + 1) ELSE i

\* the index of the first token at or after i with a backtick
RECURSIVE NextBacktick(_, _)
NextBacktick(text, i) ==
    IF i <= Len(text) /\ ~HasBacktick(text[i]) THEN NextBacktick(text, i + 1) ELSE i

\* the index of the first white space token at or after i
RECURSIVE NextSpace(_, _)
NextSpace(text, i) ==
    IF i <= Len(text) /\ ~IsSpace(text[i]) THEN NextSpace(text, i + 1) ELSE i

At(text, i) == IF i >= 1 /\ i <= Len(text) THEN text[i] ELSE "EOF"

NoMatch == [ok |-> FALSE, path |-> <<>>, lang |-> <<>>, content |-> <<>>, end |-> 0]

\* The pattern of line 386 tried at the line start i:
\*   ^\s*###\s*\*\*`([^`]+)`\*\*\s*$\n+```(?:(\w*|\S*)\n)?([\s\S]*?)\n```
\* end is the index after the closing fence.  The optional language group is
\* taken when a newline ends the run after the fence, unless only the
\* pattern without it finds a closing fence.
MatchAt(text, i) ==
    LET Close(cstart, lang, path) ==
            LET Found(e) ==
                    IF e = 0 THEN NoMatch
                    ELSE [ok |-> TRUE, path |-> path, lang |-> lang,
                          content |-> SubSeq(text, cstart, e - 1), end |-> e + 2]
            IN Found(find(text, <<"\n", "FENCE">>, cstart))
        Body(k, l, path) ==
            IF At(text, l) = "\n" /\ Close(l + 1, SubSeq(text, k + 1, l - 1), path).ok
               THEN Close(l + 1, SubSeq(text, k + 1, l - 1), path)
               ELSE Close(k + 1, <<>>, path)
        Fence(pend, k, path) ==
            IF k > pend + 2 /\ At(text, k) = "FENCE" /\ At(text, k - 1) = "\n"
               THEN Body(k, NextSpace(text, k + 1), path)
               ELSE NoMatch
        Path(pstart, pend) ==
            IF pend > pstart /\ At(text, pend) = "BT" /\ At(text, pend + 1) = "**"
               THEN Fence(pend, SkipSpace(text, pend + 2), SubSeq(text, pstart, pend - 1))
               ELSE NoMatch
        Stars(j2) ==
            IF At(text, j2) = "**" /\ At(text, j2 + 1) = "BT"
               THEN Path(j2 + 2, NextBacktick(text, j2 + 2))
               ELSE NoMatch
        Hashes(j1) ==
            IF At(text, j1) = "###" THEN Stars(SkipSpace(text, j1 + 1)) ELSE NoMatch
    IN Hashes(SkipSpace(text, i))

\* ^ under re.MULTILINE
LineStart(text, i) == i = 1 \/ At(text, i - 1) = "\n"

\* line 436: the matches of re.finditer from position pos on, left to right
RECURSIVE finditer(_, _)
finditer(text, pos) ==
    LET Rest(m) == <<m>> \o finditer(text, m.end)
        First(starts) ==
            IF starts = {} THEN <<>>
            ELSE Rest(MatchAt(text, CHOOSE i \in starts : \A j \in starts : i <= j))
    IN First({i \in pos..Len(text) : LineStart(text, i) /\ MatchAt(text, i).ok})

\* lines 421-433 without the skipping
SkipPrompt_none(content) == content

\* lines 421-433: the text after the first blank line that follows the marker
SkipPrompt(content) ==
    LET Cut(e) == IF e > 0 THEN Drop(content, e + 1) ELSE content
        From(m) == Cut(find(content, <<"\n", "\n">>, m))
    IN IF startswith(lstrip(content), prompt_marker)
          THEN From(find(content, prompt_marker, 1))
          ELSE content

\* line 444 without the test for an absolute path
UnsafePath_dotdot_only(rel_path) == \E i \in DOMAIN split(rel_path, os_sep) : split(rel_path, os_sep)[i] = <<"..">>

\* line 444 without the test for ".."
UnsafePath_abs_only(rel_path) == isabs(rel_path)

\* line 444
UnsafePath(rel_path) ==
    isabs(rel_path) \/ \E i \in DOMAIN split(rel_path, os_sep) : split(rel_path, os_sep)[i] = <<"..">>

\* The state of slice_files: the two counters, match_count, the index of the
\* next input file, the matches not yet processed; and for the properties
\* made: the directories line 454 created, wrote: the files line 460 wrote,
\* last: the path captured by the match processed last, rejected: the
\* numbers (in order of processing) of the matches refused as unsafe,
\* n: the number of matches processed, scanned: the text given to finditer.
NoDec ==
    [files_created |-> 0, errors_encountered |-> 0, match_count |-> 0, in_idx |-> 1,
     matches |-> <<>>, made |-> {}, wrote |-> <<>>, last |-> <<>>, rejected |-> {},
     n |-> 0, scanned |-> <<>>]

\* lines 440-467: one match
SliceMatch(fs, d, output_folder, m) ==
    LET d1 == [d EXCEPT !.match_count = @ + 1, !.n = @ + 1, !.last = m.path]
        Failed(f, dd) == [fs |-> f, dec |-> [dd EXCEPT !.errors_encountered = @ + 1]]
        Open(f, dd, full) ==
            IF isdir(f, full)
               THEN Failed(f, dd)
               ELSE [fs |-> [q \in DOMAIN f \cup {abspath(full)} |->
                               IF q = abspath(full) THEN File(m.content, "ok") ELSE f[q]],
                     dec |-> [dd EXCEPT !.files_created = @ + 1,
                                        !.wrote = Append(@, [path |-> full, n |-> dd.n])]]
        Dirs(md, full) ==
            IF ~md.ok THEN Failed(fs, d1)
            ELSE Open(md.fs, [d1 EXCEPT !.made = @ \cup md.made], full)
        Safe(full) == Dirs(makedirs(fs, dirname(full), TRUE), full)
        Checked(rel_path) ==
            IF UnsafePath(rel_path)
               THEN Failed(fs, [d1 EXCEPT !.rejected = @ \cup {d1.n}])
               ELSE Safe(path_join(output_folder, rel_path))
    IN Checked(normpath(strip(m.path)))

(***************************************************************************)
(* State                                                                   *)
(***************************************************************************)
VARIABLES
    fs,          \* the file system
    fs0,         \* the file system when the run began (for the properties)
    args,        \* the arguments of the encode run: output_name, paths,
                 \* force, exclusions, includes, add_prompt
    pc,          \* where the run is
    acc,         \* output_file's text and the sets of the run (see above)
    effective_exclusions_list,
    path_idx,    \* the index in paths of the next path_arg
    sargs,       \* the arguments of the decode run: input_files, output_folder
    dec          \* the state of slice_files (below)

vars == <<fs, fs0, args, pc, acc, effective_exclusions_list, path_idx, sargs, dec>>

(***************************************************************************)
(* The trees and arguments of the encode runs                              *)
(***************************************************************************)
\* the most nodes of the tree that are not plain readable text
MaxAnomalies == 1

pProj == <<"proj">>
pGit == <<"proj", "/", ".git">>
pConfig == <<"proj", "/", ".git", "/", "config">>
pA == <<"proj", "/", "a", ".py">>
pSub == <<"proj", "/", "sub">>
pB == <<"proj", "/", "sub", "/", "b", ".txt">>
pOut == <<"out", ".md">>
pNope == <<"nope">>

TextBytes == <<"x", "\n">>
BinaryBytes == <<"x", "NUL", "y">>

FileOfKind(kind) ==
    CASE kind = "text" -> File(TextBytes, "ok")
      [] kind = "binary" -> File(BinaryBytes, "ok")
      [] kind = "unreadable" -> File(TextBytes, "unreadable")
      [] kind = "lost" -> File(TextBytes, "lost")

\* proj/ with .git/config, a.py and sub/b.txt below it, and out.md beside it
Tree(kindA, kindConfig, permSub, outExists) ==
    LET nodes == {cwd, abspath(pProj), abspath(pGit), abspath(pConfig), abspath(pA),
                  abspath(pSub), abspath(pB)}
                 \cup (IF outExists THEN {abspath(pOut)} ELSE {})
    IN [p \in nodes |->
          IF p = abspath(pA) THEN FileOfKind(kindA)
          ELSE IF p = abspath(pConfig) THEN FileOfKind(kindConfig)
          ELSE IF p = abspath(pB) THEN File(<<"y">>, "ok")
          ELSE IF p = abspath(pOut) THEN File(<<"old">>, "ok")
          ELSE IF p = abspath(pSub) THEN Dir(permSub)
          ELSE Dir("ok")]

Trees ==
    {Tree(ka, kc, ps, oe) :
        <<ka, kc, ps, oe>> \in
           {t \in {"text", "binary", "unreadable", "lost"} \X {"text", "binary"}
                  \X {"ok", "unreadable"} \X BOOLEAN :
               Cardinality({i \in 1..3 : t[i] \notin {"text", "ok"}}) <= MaxAnomalies}}

PathArgs == {pProj, pConfig, pOut, pNope}

PathLists == UNION {[1..n -> PathArgs] : n \in 1..MaxPaths}

ArgSets ==
    [output_name : {pOut},
     paths : PathLists,
     force : BOOLEAN,
     exclusions : {<<>>, <<<<"sub">>>>},
     includes : {<<>>, <<<<"*", ".py">>>>, <<<<"sub">>>>, <<<<"*", ".py">>, <<"*", ".txt">>>>},
     add_prompt : BOOLEAN]

NoSargs == [input_files |-> <<>>, output_folder |-> <<>>]

Init ==
    /\ fs \in Trees
    /\ fs0 = fs
    /\ args \in ArgSets
    /\ pc = "preflight"
    /\ acc = EmptyAcc
    /\ effective_exclusions_list = <<>>
    /\ path_idx = 1
    /\ sargs = NoSargs
    /\ dec = NoDec

(***************************************************************************)
(* The steps of concatenate_files_and_folders                              *)
(***************************************************************************)
\* lines 293-301: the pre-flight check; handle_error ends the process
Preflight ==
    /\ pc = "preflight"
    /\ \/ /\ PreflightFails(fs, args)
          /\ pc' = "exit"
       \/ /\ ~PreflightFails(fs, args)
          /\ pc' = "open"
    /\ UNCHANGED <<fs, fs0, args, acc, effective_exclusions_list, path_idx, sargs, dec>>

\* lines 304-318: the sets, the exclusion list (in any order of the set) and
\* the output file opened for writing
OpenOutput ==
    /\ pc = "open"
    /\ effective_exclusions_list' \in Orders(effective_exclusions(args.exclusions))
    /\ fs' = OpenForWrite(fs, normpath(args.output_name))
    /\ acc' = EmptyAcc
    /\ pc' = "prompt"
    /\ UNCHANGED <<fs0, args, path_idx, sargs, dec>>

\* lines 320-323
WritePrompt ==
    /\ pc = "prompt"
    /\ acc' = [acc EXCEPT !.out = @ \o PromptText(args)]
    /\ pc' = "paths"
    /\ UNCHANGED <<fs, fs0, args, effective_exclusions_list, path_idx, sargs, dec>>

\* lines 326-346: one path_arg
PathArg ==
    /\ pc = "paths"
    /\ path_idx <= Len(args.paths)
    /\ acc' = ProcessPathArg(args.paths[path_idx],
                             [fs |-> fs, exclusions |-> effective_exclusions_list,
                              includes |-> args.includes],
                             acc)
    /\ path_idx' = path_idx + 1
    /\ UNCHANGED <<fs, fs0, args, pc, effective_exclusions_list, sargs, dec>>

\* the end of the with block (the file is closed, its text is on disk) and
\* the summary, lines 349-362
Finish ==
    /\ pc = "paths"
    /\ path_idx > Len(args.paths)
    /\ fs' = [fs EXCEPT ![abspath(normpath(args.output_name))] = File(acc.out, "ok")]
    /\ pc' = "done"
    /\ UNCHANGED <<fs0, args, acc, effective_exclusions_list, path_idx, sargs, dec>>

Next == Preflight \/ OpenOutput \/ WritePrompt \/ PathArg \/ Finish

Spec == Init /\ [][Next]_vars

(***************************************************************************)
(* The steps of slice_files                                                *)
(***************************************************************************)
\* lines 372-389: the output folder is created if nothing exists at its
\* path; handle_error ends the process when that fails
SliceStart ==
    /\ pc = "slice"
    /\ LET Made(md) ==
               IF md.ok THEN fs' = md.fs /\ pc' = "inputs" ELSE fs' = fs /\ pc' = "exit"
       IN IF exists(fs, sargs.output_folder)
             THEN fs' = fs /\ pc' = "inputs"
             ELSE Made(makedirs(fs, sargs.output_folder, FALSE))
    /\ dec' = NoDec
    /\ UNCHANGED <<fs0, args, acc, effective_exclusions_list, path_idx, sargs>>

Readable(input_file) == isfile(fs, input_file) /\ fs[abspath(input_file)].perm = "ok"

\* lines 392-395 and 398-416: an input file that is no file or cannot be
\* read counts one error and is skipped
SliceSkipInput ==
    /\ pc = "inputs"
    /\ dec.in_idx <= Len(sargs.input_files)
    /\ ~Readable(sargs.input_files[dec.in_idx])
    /\ dec' = [dec EXCEPT !.errors_encountered = @ + 1, !.in_idx = @ + 1]
    /\ UNCHANGED <<fs, fs0, args, pc, acc, effective_exclusions_list, path_idx, sargs>>

\* lines 397-437 for an input file whose text the model leaves open: every
\* sequence of matches is possible, SliceEntryAny draws them one by one
SliceBeginInput ==
    /\ pc = "inputs"
    /\ dec.in_idx <= Len(sargs.input_files)
    /\ Readable(sargs.input_files[dec.in_idx])
    /\ fs[abspath(sargs.input_files[dec.in_idx])].bytes = <<"ANY">>
    /\ dec' = [dec EXCEPT !.match_count = 0]
    /\ pc' = "anymatch"
    /\ UNCHANGED <<fs, fs0, args, acc, effective_exclusions_list, path_idx, sargs>>

\* lines 397-437: the text is read, the prompt skipped, the matches found
SliceReadInput ==
    /\ pc = "inputs"
    /\ dec.in_idx <= Len(sargs.input_files)
    /\ Readable(sargs.input_files[dec.in_idx])
    /\ fs[abspath(sargs.input_files[dec.in_idx])].bytes # <<"ANY">>
    /\ LET Scan(content) ==
               dec' = [dec EXCEPT !.match_count = 0, !.scanned = content,
                                  !.matches = finditer(content, 1)]
       IN Scan(SkipPrompt(ReadText(fs[abspath(sargs.input_files[dec.in_idx])].bytes)))
    /\ pc' = "matches"
    /\ UNCHANGED <<fs, fs0, args, acc, effective_exclusions_list, path_idx, sargs>>

\* the most components of a captured path, the most white space around it
\* and the most matches of one input file
MaxSegs == 3
MaxPad == 1
MaxEntries == 2

Pad(n) == [i \in 1..n |-> " "]

\* the paths a match can capture: components joined by "/", a leading or
\* trailing "/" and doubled "/" included, with white space around
RawPaths ==
    {Pad(a) \o joinstr(c, "/") \o Pad(b) :
        <<a, b, c>> \in
            {t \in (0..MaxPad) \X (0..MaxPad)
                   \X UNION {[1..n -> {<<>>, <<".">>, <<"..">>, <<"a">>}] : n \in 1..MaxSegs} :
                t[1] = t[2] /\ Pad(t[1]) \o joinstr(t[3], "/") \o Pad(t[2]) # <<>>}}

SliceStep(m) ==
    LET Apply(r) == fs' = r.fs /\ dec' = r.dec
    IN Apply(SliceMatch(fs, dec, sargs.output_folder, m))

\* lines 439-467: the next match, any path and content
SliceEntryAny ==
    /\ pc = "anymatch"
    /\ dec.match_count < MaxEntries
    /\ \E raw \in RawPaths :
          SliceStep([ok |-> TRUE, path |-> raw, lang |-> <<>>, content |-> <<"c">>, end |-> 0])
    /\ UNCHANGED <<fs0, args, pc, acc, effective_exclusions_list, path_idx, sargs>>

\* lines 439-467: the next match of the text read
SliceEntryNext ==
    /\ pc = "matches"
    /\ dec.matches # <<>>
    /\ LET Apply(r) == fs' = r.fs /\ dec' = [r.dec EXCEPT !.matches = Tail(@)]
       IN Apply(SliceMatch(fs, dec, sargs.output_folder, Head(dec.matches)))
    /\ UNCHANGED <<fs0, args, pc, acc, effective_exclusions_list, path_idx, sargs>>

\* lines 470-476: the matches are exhausted
SliceEndInput ==
    /\ pc = "anymatch" \/ (pc = "matches" /\ dec.matches = <<>>)
    /\ dec' = [dec EXCEPT !.in_idx = @ + 1]
    /\ pc' = "inputs"
    /\ UNCHANGED <<fs, fs0, args, acc, effective_exclusions_list, path_idx, sargs>>

\* lines 479-482
SliceDone ==
    /\ pc = "inputs"
    /\ dec.in_idx > Len(sargs.input_files)
    /\ pc' = "sliced"
    /\ UNCHANGED <<fs, fs0, args, acc, effective_exclusions_list, path_idx, sargs, dec>>

(***************************************************************************)
(* Decode runs on any bundle                                               *)
(***************************************************************************)
pDec == <<"dec">>
pDeep == <<"dec", "/", "deep">>
pIn == <<"in", ".md">>
pBad == <<"bad", ".md">>

\* the working directory with a bundle in.md of any text, an unreadable
\* bad.md and perhaps dec/ or a file dec
SliceTree(decKind) ==
    LET nodes == {cwd, abspath(pIn), abspath(pBad)}
                 \cup (IF decKind = "none" THEN {} ELSE {abspath(pDec)})
    IN [p \in nodes |->
          IF p = abspath(pIn) THEN File(<<"ANY">>, "ok")
          ELSE IF p = abspath(pBad) THEN File(<<"ANY">>, "unreadable")
          ELSE IF p = abspath(pDec) /\ decKind = "file" THEN File(<<"old">>, "ok")
          ELSE Dir("ok")]

SliceArgSets ==
    [input_files : {<<pIn>>, <<pBad, pIn>>, <<pNope, pIn>>},
     output_folder : {pDec, pDeep}]

InitSlice ==
    /\ fs \in {SliceTree(k) : k \in {"none", "dir", "file"}}
    /\ fs0 = fs
    /\ sargs \in SliceArgSets
    /\ pc = "slice"
    /\ dec = NoDec
    /\ args = CHOOSE a \in ArgSets : TRUE
    /\ acc = EmptyAcc
    /\ effective_exclusions_list = <<>>
    /\ path_idx = 1

NextSlice ==
    SliceStart \/ SliceSkipInput \/ SliceBeginInput \/ SliceEntryAny \/ SliceEndInput
        \/ SliceDone

SpecSlice == InitSlice /\ [][NextSlice]_vars

(***************************************************************************)
(* Properties of the encode run                                            *)
(***************************************************************************)
Walking == pc \in {"paths", "done"}

IsBelow(x, d) == startswith(x, d \o <<"/">>)

\* the paths that appear in the bundle or in one of the three sets
Appears ==
    acc.processed_files \cup acc.skipped_files \cup acc.excluded_items
    \cup {acc.entries[i].file : i \in DOMAIN acc.entries}

Written == {acc.entries[i].file : i \in DOMAIN acc.entries}

ExcludedHere(p) == should_exclude(p, effective_exclusions_list, isdir(fs, p))

\* C4: a path the walk reaches that matches an exclusion pattern is put in
\* excluded_items and is neither written, counted nor listed, whether or not
\* it matches an inclusion pattern.
C4_ExclusionPrecedence ==
    Walking =>
        \A p \in acc.visited :
            ExcludedHere(p) =>
                /\ p \in acc.excluded_items
                /\ p \notin Written
                /\ p \notin acc.processed_files \cup acc.skipped_files
                /\ p \notin acc.listed

\* C4's case: an excluded path that also matches an inclusion pattern
C4_Witness ==
    /\ pc = "done"
    /\ args.includes # <<>>
    /\ \E p \in acc.excluded_items : should_include(p, args.includes, isdir(fs, p))

DefaultDirNames ==
    {<<".git">>, <<".hg">>, <<".svn">>, <<"node_modules">>, <<"__pycache__">>,
     <<"venv">>, <<".venv">>}

\* the directories the walk reached that match an exclusion pattern or bear
\* one of the fixed default names
PrunedDirs ==
    {d \in acc.visited :
        isdir(fs, d) /\ (ExcludedHere(d) \/ basename(d) \in DefaultDirNames)}

\* C5 as stated: an excluded directory is recorded, is never listed, and
\* none of its descendants appears in the bundle or in any of the sets.
C5_NoDescendantAppears ==
    Walking =>
        \A d \in PrunedDirs :
            /\ d \in acc.excluded_items
            /\ d \notin acc.listed
            /\ \A x \in Appears : ~IsBelow(x, d)

\* the input paths seen so far, normalized
GivenPaths == {normpath(args.paths[i]) : i \in 1..(path_idx - 1)}

\* C5 amended: an excluded directory is recorded and never listed, and a
\* descendant of it appears only when it is, or lies below, an input path
\* that is itself below the directory.
C5_SubtreePruned ==
    Walking =>
        \A d \in PrunedDirs :
            /\ d \in acc.excluded_items
            /\ d \notin acc.listed
            /\ \A x \in Appears :
                  IsBelow(x, d) =>
                     \E g \in GivenPaths : IsBelow(g, d) /\ (x = g \/ IsBelow(x, g))

\* C5's case: .git is pruned by the defaults alone while the rest is bundled
C5_Witness ==
    /\ pc = "done"
    /\ args.exclusions = <<>>
    /\ pGit \in acc.excluded_items
    /\ pA \in Written

HasNul(f, p) == \E i \in DOMAIN Take(f[abspath(p)].bytes, ChunkSize) : f[abspath(p)].bytes[i] = "NUL"

\* the files of the tree, as the walk names them
TreeFiles == {pConfig, pA, pB}

\* p is an input path of the run or lies below one
UnderInput(p) ==
    \E i \in DOMAIN args.paths : p = normpath(args.paths[i]) \/ IsBelow(p, normpath(args.paths[i]))

C7_Deterministic ==
    pc = "done" =>
        \A l \in Orders(effective_exclusions(args.exclusions)) :
            EncodeRun(fs0, args, l).out = fs[abspath(normpath(args.output_name))].bytes

\* C7's case: a run whose list was not in the first order, with an excluded
\* item and a written entry
C7_Witness ==
    /\ pc = "done"
    /\ effective_exclusions_list # SetOrder(effective_exclusions(args.exclusions), 0)
    /\ acc.excluded_items # {}
    /\ Len(acc.entries) >= 2

\* the file system with every node readable
Repaired(f) == [p \in DOMAIN f |-> [f[p] EXCEPT !.perm = "ok"]]

\* C9 as stated: a run in which a failure was recovered ends with summary
\* counts that differ from those of the same run without the failure.
C9_FailuresSurfaced ==
    (pc = "done" /\ acc.failures # {}) =>
        SummaryOf(acc, fs, effective_exclusions_list)
          # SummaryOf(EncodeRun(Repaired(fs0), args, effective_exclusions_list),
                      Repaired(fs0), effective_exclusions_list)

OutputIsInput ==
    normpath(args.output_name) \in {normpath(q) : q \in Range(args.paths)}

Untouched == pc \in {"preflight", "exit"} /\ fs = fs0 /\ acc = EmptyAcc

\* C10 as stated: an output that is an input path, or that exists without
\* force, stops the run before the output is opened.
C10_ConfigErrorsFatal ==
    (OutputIsInput \/ (exists(fs0, args.output_name) /\ ~args.force)) => Untouched

\* C10 amended: an output that exists without force stops the run before the
\* output is opened, also when it is an input path; an output that is an
\* input path does not stop the run when force is set or the output does not
\* exist yet.
C10_ExistingOutputFatal ==
    /\ (exists(fs0, args.output_name) /\ ~args.force) => Untouched
    /\ (OutputIsInput /\ (args.force \/ ~exists(fs0, args.output_name))) => pc # "exit"

\* C10's case: the run was stopped for an output that is also an input path
C10_Witness ==
    /\ pc = "exit"
    /\ OutputIsInput
    /\ fs = fs0

(***************************************************************************)
(* Properties of the include filter                                        *)
(***************************************************************************)
\* the nodes of the tree, as the walk names them
TreeNodes == {pProj, pGit, pConfig, pA, pSub, pB}

\* the nodes from g down to p, both included
Chain(g, p) == {x \in TreeNodes : (x = g \/ IsBelow(x, g)) /\ (x = p \/ IsBelow(p, x))}

\* nothing from g down to p is excluded and every directory on the way can
\* be listed
OpenWay(g, p) ==
    \A x \in Chain(g, p) :
        ~ExcludedHere(x) /\ (isdir(fs, x) => fs[abspath(x)].perm = "ok")

\* the classifier accepts p and its content can be read
TextFile(p) == is_text_file(fs, p) /\ fs[abspath(p)].perm = "ok"

Included(p) == should_include(p, args.includes, isdir(fs, p))

\* C11 as stated: with include patterns, every text file below a directory
\* that matches one of them is written, nothing on the way being excluded,
\* also when the file itself matches none.
C11_DirectoryMatchBringsContents ==
    (pc = "done" /\ args.includes # <<>>) =>
        \A d \in acc.visited :
            (isdir(fs, d) /\ Included(d)) =>
                \A p \in TreeFiles :
                    (IsBelow(p, d) /\ TextFile(p) /\ OpenWay(d, p)) => p \in Written

\* p is an input path that exists or lies below one, with an open way to it
Reached(p) ==
    \E i \in DOMAIN args.paths :
        /\ exists(fs, args.paths[i])
        /\ p = normpath(args.paths[i]) \/ IsBelow(p, normpath(args.paths[i]))
        /\ OpenWay(normpath(args.paths[i]), p)

\* p comes before q in a walk that lists every directory in sorted order
WalkBefore(p, q) ==
    LET Cmp(a, b, i) == i <= Len(a) /\ (i > Len(b) \/ StrLess(a[i], b[i]))
        Diff(a, b) == Cmp(a, b, CommonLen(a, b) + 1)
    IN Diff(PathComps(p), PathComps(q))

\* C12: with include patterns, a directory that matches none and is not
\* excluded is listed and each of its items is visited; every text file that
\* matches a pattern and is reached by an open way is written, whether or
\* not its ancestors match; the entries of a walk are in the order of the
\* sorted listings; a file that is not excluded and matches no pattern is in
\* none of processed_files, skipped_files, excluded_items and the bundle.
C12_DescendsThroughNonMatching ==
    (pc = "done" /\ args.includes # <<>>) =>
        /\ \A d \in acc.visited :
              (isdir(fs, d) /\ ~Included(d) /\ ~ExcludedHere(d)
                 /\ fs[abspath(d)].perm = "ok")
                => /\ d \in acc.listed
                   /\ \A x \in TreeNodes : dirname(x) = d => x \in acc.visited
        /\ \A p \in TreeFiles :
              (Reached(p) /\ TextFile(p) /\ Included(p)) => p \in Written
        /\ Len(args.paths) = 1 =>
              \A i, j \in DOMAIN acc.entries :
                  i < j => WalkBefore(acc.entries[i].file, acc.entries[j].file)
        /\ \A p \in acc.visited :
              (isfile(fs, p) /\ ~Included(p) /\ ~ExcludedHere(p))
                => p \notin acc.processed_files \cup acc.skipped_files
                                \cup acc.excluded_items \cup Written

\* C12's case: b.txt is written from below sub, which matches no pattern,
\* after a.py, and the input file .git/config, which matches none, is dropped
C12_Witness ==
    /\ pc = "done"
    /\ args.includes = <<<<"*", ".py">>, <<"*", ".txt">>>>
    /\ ~Included(pSub) /\ ~Included(pProj)
    /\ Len(acc.entries) = 2
    /\ acc.entries[1].file = pA /\ acc.entries[2].file = pB
    /\ pConfig \in acc.visited

(***************************************************************************)
(* Encode runs followed by a decode run on the bundle they wrote           *)
(***************************************************************************)
\* the most tokens of the file whose content varies
MaxContentLen == 3

Contents == UNION {[1..n -> {"x", "\n", "\r", "FENCE"}] : n \in 0..MaxContentLen}

\* proj/ with a.py of the given content and sub/b.txt below it
TextTree(content) ==
    [p \in {cwd, abspath(pProj), abspath(pA), abspath(pSub), abspath(pB)} |->
        IF p = abspath(pA) THEN File(content, "ok")
        ELSE IF p = abspath(pB) THEN File(<<"y">>, "ok")
        ELSE Dir("ok")]

InitRT ==
    /\ fs \in {TextTree(c) : c \in Contents}
    /\ fs0 = fs
    /\ args \in [output_name : {pOut}, paths : {<<pProj>>}, force : {FALSE},
                 exclusions : {<<>>}, includes : {<<>>}, add_prompt : BOOLEAN]
    /\ pc = "preflight"
    /\ acc = EmptyAcc
    /\ effective_exclusions_list = <<>>
    /\ path_idx = 1
    /\ sargs = NoSargs
    /\ dec = NoDec

\* lines 565-567: the program is run again with --slice on the bundle the
\* encode run wrote, into the fresh folder dec
RunSlice ==
    /\ pc = "done"
    /\ sargs' = [input_files |-> <<args.output_name>>, output_folder |-> pDec]
    /\ pc' = "slice"
    /\ UNCHANGED <<fs, fs0, args, acc, effective_exclusions_list, path_idx, dec>>

NextRT ==
    Preflight \/ OpenOutput \/ WritePrompt \/ PathArg \/ Finish \/ RunSlice
        \/ SliceStart \/ SliceReadInput \/ SliceEntryNext \/ SliceEndInput \/ SliceDone

SpecRT == InitRT /\ [][NextRT]_vars

(***************************************************************************)
(* Properties of the decode runs                                           *)
(***************************************************************************)
Segments(p) == {split(p, "/")[i] : i \in DOMAIN split(p, "/")}

\* the captured path, trimmed, is absolute or has a ".." segment
RawUnsafe(raw) == isabs(strip(raw)) \/ <<"..">> \in Segments(strip(raw))

\* the captured path, trimmed and normalized, is absolute or has a ".."
\* segment
NormUnsafe(raw) ==
    isabs(normpath(strip(raw))) \/ <<"..">> \in Segments(normpath(strip(raw)))

\* the step processes one match
EntryStep == dec'.n = dec.n + 1

\* the step writes no file, creates no directory, counts one error, leaves
\* files_created alone and stays in the loop over the matches
RejectingStep ==
    /\ fs' = fs
    /\ dec'.made = dec.made
    /\ dec'.wrote = dec.wrote
    /\ dec'.errors_encountered = dec.errors_encountered + 1
    /\ dec'.files_created = dec.files_created
    /\ pc' = pc

\* C2 as stated: every entry whose captured path is absolute or has a ".."
\* segment anywhere (../evil.txt, a/../b.txt, /etc/passwd) is rejected: no
\* file written, no directory created, one more error, files_created
\* unchanged, and the loop goes on.
C2_RawUnsafeRejected == [][EntryStep /\ RawUnsafe(dec'.last) => RejectingStep]_vars

\* C2: an entry is refused as unsafe exactly when its captured path, trimmed
\* and normalized, is absolute or has a ".." segment; a refused entry writes
\* no file, creates no directory, adds exactly one to errors_encountered,
\* leaves files_created unchanged, and the loop goes on with the next entry.
\* (a/../b.txt normalizes to b.txt and is not refused.)
C2_NormUnsafeRejected ==
    [][EntryStep =>
         /\ NormUnsafe(dec'.last) <=> dec'.n \in dec'.rejected
         /\ NormUnsafe(dec'.last) => RejectingStep]_vars

\* an entry was written after an entry with ".." first was refused
C2_Witness ==
    /\ \E r \in dec.rejected : \E i \in DOMAIN dec.wrote : dec.wrote[i].n > r
    /\ dec.errors_encountered >= 1
    /\ dec.files_created >= 1

root == abspath(sargs.output_folder)

\* C3: every file written and every directory created for an entry has a
\* normalized path strictly inside output_folder; whatever the entries, the
\* only nodes of the file system that are new or changed and not strictly
\* inside it are output_folder itself and its missing parents, created as
\* directories by line 377 before any entry is read.
C3_WritesInsideRoot ==
    /\ \A i \in DOMAIN dec.wrote : IsBelow(abspath(dec.wrote[i].path), root)
    /\ \A d \in dec.made : IsBelow(d, root)
    /\ DOMAIN fs0 \subseteq DOMAIN fs
    /\ \A p \in DOMAIN fs :
          (p \notin DOMAIN fs0 \/ fs[p] # fs0[p])
             => \/ IsBelow(p, root)
                \/ p \in Prefixes(root) /\ p \notin DOMAIN fs0 /\ fs[p] = Dir("ok")

\* a file was written in a directory made for it, after an unsafe entry
C3_Witness ==
    /\ pc = "sliced"
    /\ dec.made # {}
    /\ dec.wrote # <<>>
    /\ dec.rejected # {}

(***************************************************************************)
(* Properties of an encode run followed by a decode run                    *)
(***************************************************************************)
InputFiles == {p \in DOMAIN fs0 : fs0[p].type = "file" /\ IsBelow(p, abspath(pProj))}

\* the place in the output folder of the input file p: its path relative to
\* the folder that holds the tree (the headers begin with the tree's name)
Decoded(p) ==
    abspath(path_join(sargs.output_folder, relpath(p, dirname(abspath(pProj)))))

\* C1 as stated: when every file of the tree is text for the classifier,
\* encoding the tree and decoding the bundle into a fresh folder gives every
\* file at its relative path with exactly its original content.
C1_RoundTrip ==
    (pc = "sliced" /\ \A p \in InputFiles : is_text_file(fs0, p))
       => \A p \in InputFiles :
             /\ Decoded(p) \in DOMAIN fs
             /\ fs[Decoded(p)].type = "file"
             /\ fs[Decoded(p)].bytes = fs0[p].bytes

\* the tokens of the preamble that are no part of a header or a fence
PreambleWords ==
    Range(AI_INSTRUCTION_PROMPT) \ Range(FormatEntry(<<"/">>, <<"python", "text">>, <<" ">>))

\* the text of the bundle has been read
BundleRead == pc \in {"matches", "sliced"} \/ (pc = "inputs" /\ dec.in_idx > 1)

\* C8: when the bundle begins with the preamble, the text scanned for
\* entries begins after the last line of the preamble, and no file the
\* decode run writes has a token of the preamble in its path or content.
C8_PreambleSkipped ==
    (BundleRead /\ args.add_prompt)
       => /\ dec.scanned
               = Drop(ReadText(fs[abspath(args.output_name)].bytes),
                      Len(AI_INSTRUCTION_PROMPT) - 2)
          /\ Range(dec.scanned) \cap PreambleWords = {}
          /\ \A i \in DOMAIN dec.wrote :
                /\ Range(dec.wrote[i].path) \cap PreambleWords = {}
                /\ Range(fs[abspath(dec.wrote[i].path)].bytes) \cap PreambleWords = {}

\* a bundle with the preamble was decoded and both files were written
C8_Witness ==
    /\ pc = "sliced"
    /\ args.add_prompt
    /\ startswith(lstrip(fs[abspath(args.output_name)].bytes), prompt_marker)
    /\ dec.files_created = 2

(***************************************************************************)
(* The count of the summary                                                *)
(***************************************************************************)
\* the header lines of a text
HeaderCount(text) == Cardinality({i \in DOMAIN text : text[i] = "###" /\ LineStart(text, i)})

\* C13 as stated: when an encode run ends, the number of text files added
\* that the summary reports is the number of entries written to the output
\* file, whatever the list of input paths.
C13_AddedCountIsEntriesWritten ==
    pc = "done" =>
        /\ SummaryOf(acc, fs, effective_exclusions_list).added = Len(acc.entries)
        /\ SummaryOf(acc, fs, effective_exclusions_list).added
             = HeaderCount(fs[abspath(normpath(args.output_name))].bytes)

(***************************************************************************)
(* Encode runs on paths given in every form                                *)
(***************************************************************************)
pDot == <<".">>
pDotDot == <<"..">>
pAbsProj == <<"/", "w", "/", "proj">>
pAbsA == <<"/", "w", "/", "proj", "/", "a", ".py">>
pUpProj == <<"..", "/", "w", "/", "proj">>
pUpA == <<"..", "/", "w", "/", "proj", "/", "a", ".py">>
pRoot == <<"/">>

\* the root directory, the working directory w in it, and proj/a.py in w
FormTree(kindA) ==
    [p \in {pRoot, cwd, abspath(pProj), abspath(pA)} |->
        IF p = abspath(pA) THEN FileOfKind(kindA) ELSE Dir("ok")]

FormPaths == {pDot, pDotDot, pProj, pA, pAbsProj, pAbsA, pUpProj, pUpA, pRoot}

InitForms ==
    /\ fs \in {FormTree(k) : k \in {"text", "binary"}}
    /\ fs0 = fs
    /\ args \in [output_name : {pOut},
                 paths : UNION {[1..n -> FormPaths] : n \in 1..MaxPaths},
                 force : {FALSE}, exclusions : {<<>>}, includes : {<<>>},
                 add_prompt : BOOLEAN]
    /\ pc = "preflight"
    /\ acc = EmptyAcc
    /\ effective_exclusions_list = <<>>
    /\ path_idx = 1
    /\ sargs = NoSargs
    /\ dec = NoDec

SpecForms == InitForms /\ [][Next]_vars

\* C14 as stated: every header path the encoder writes is relative, has no
\* backslash and no ".." segment, and passes the test of line 444 on the
\* path the decoder computes from it.
C14_HeadersPassSafetyCheck ==
    \A i \in DOMAIN acc.entries :
        /\ ~isabs(acc.entries[i].rel_path)
        /\ "BSLASH" \notin Range(acc.entries[i].rel_path)
        /\ <<"..">> \notin Segments(acc.entries[i].rel_path)
        /\ ~UnsafePath(normpath(strip(acc.entries[i].rel_path)))

====
